---- MODULE Spec2Model ----
(***************************************************************************)
(* Model of cli-clipper: the KeyRotation adapter (credential rotation),    *)
(* GitHubAdapter.getRunStatus (run correlation), pollWorkflowStatus (the   *)
(* status poller) and ClipperService.process (the orchestrator).           *)
(*                                                                         *)
(* Strings of the program are sequences of one-character strings, so that  *)
(* split, trim, startsWith and includes are computed, not assumed.         *)
(***************************************************************************)
EXTENDS Integers, Sequences, FiniteSets, TLC

VARIABLES
    \* ---- KeyRotation (src/unnamed/part_002) ----
    keyFile,        \* service -> the key file on disk (environment)
    envVar,         \* service -> process.env[ENV_VARS[service]] (environment)
    currentIndex,   \* KeyRotation.currentIndex : Map<ServiceName, number>
    keysCache,      \* KeyRotation.keysCache    : Map<ServiceName, string[]>
    rotResult,      \* outcome of the last KeyRotation call
    handed,         \* keys handed out by getNextKey so far, in call order
    \* ---- run correlation (src/src/adapters/GitHubAdapter.ts) ----
    now,            \* Date.now(), in milliseconds
    workerId,       \* the correlation token of the job
    dispatchTime,   \* Date.now() when the job's workflow was dispatched
    listing,        \* data.workflow_runs of the latest listWorkflowRuns call (empty
                    \* while the call is pending)
    fetched,        \* outcome of the latest getRunStatus call (none while pending)
    remoteRuns,     \* the workflow runs the repository holds, newest first
    \* ---- ClipperService.process and pollWorkflowStatus ----
    pc,             \* where the process() call stands
    watch,          \* process(url, watch)
    tgConfigured,   \* config.telegram.token && config.telegram.chatId
    interval,       \* PollOptions.interval
    timeout,        \* PollOptions.timeout
    startTime,      \* pollWorkflowStatus: startTime
    pollExit,       \* how pollWorkflowStatus ended
    result,         \* the value pollWorkflowStatus returned
    caught,         \* the error caught by process()'s catch block
    outcome,        \* how process() ended
    dispatches,     \* createWorkflowDispatch requests issued
    fetches,        \* getRunStatus calls issued
    sendVideoCalls, \* telegram.sendVideo calls
    sendErrorCalls, \* telegram.sendError calls
    pollOptions,    \* the PollOptions argument of pollWorkflowStatus
    sleeps,         \* setTimeout waits completed by pollWorkflowStatus
    latencySum,     \* time spent inside getRunStatus calls, in milliseconds
    everFound,      \* some getRunStatus call of this poll returned a run
    cancelRequested,\* an external stop request has been made
    issued,         \* worker ids generated in this Node process, in order
    foundId,        \* id of the first run a getRunStatus call of this poll returned
    progress,       \* the statuses handed to options.onProgress, in call order
    clockLag        \* milliseconds by which Date.now(), when last read, was behind
                    \* the clock of the event loop

rotVars == <<keyFile, envVar, currentIndex, keysCache, rotResult, handed>>

corrVars == <<now, workerId, dispatchTime, listing, fetched, remoteRuns>>

\* what only some steps of a job touch
auxVars == <<pollOptions, sleeps, latencySum, everFound, cancelRequested, issued,
            foundId, progress, clockLag>>

svcVars == <<pc, watch, tgConfigured, interval, timeout, startTime, pollExit, result,
             caught, outcome, dispatches, fetches, sendVideoCalls, sendErrorCalls,
             auxVars>>

nonRotVars == <<corrVars, svcVars>>

vars == <<rotVars, corrVars, svcVars>>

-----------------------------------------------------------------------------
(* Bounds *)

\* getNextKey calls recorded in one behaviour of the round-robin specification
MaxCalls == 4

\* runs in one page of the listing given to the correlator
MaxRuns == 2

\* runs in the page a status fetch of a watched job receives
MaxListed == 1

-----------------------------------------------------------------------------
(* KeyRotation: strings and key loading *)

ServiceName == {"deepgram", "gemini"}

Callers == {"job1", "job2"}

NL == "\n"

\* A character is a one-character string; a character outside ASCII is
\* written as the name of its code point, "U+00A0".
\*
\* String.prototype.trim strips the WhiteSpace and LineTerminator code points
\* at both ends: TAB, LF, VT, FF, CR, SP, then NBSP, the Unicode space
\* separators, LS, PS and ZWNBSP
WhiteSpaceChars ==
    {"\t", "\n", "", "\f", "\r", " ",
     "U+00A0", "U+1680",
     "U+2000", "U+2001", "U+2002", "U+2003", "U+2004", "U+2005",
     "U+2006", "U+2007", "U+2008", "U+2009", "U+200A",
     "U+2028", "U+2029", "U+202F", "U+205F", "U+3000", "U+FEFF"}

IsSpace(ch) == ch \in WhiteSpaceChars

RECURSIVE TrimStart(_)
TrimStart(s) ==
    IF s # <<>> /\ IsSpace(Head(s)) THEN TrimStart(Tail(s)) ELSE s

RECURSIVE TrimEnd(_)
TrimEnd(s) ==
    IF s # <<>> /\ IsSpace(s[Len(s)]) THEN TrimEnd(SubSeq(s, 1, Len(s) - 1)) ELSE s

Trim(s) == TrimEnd(TrimStart(s))

\* content.split('\n'): the pieces between newlines, empty pieces included
RECURSIVE SplitAcc(_, _, _)
SplitAcc(s, cur, acc) ==
    IF s = <<>> THEN Append(acc, cur)
    ELSE IF Head(s) = NL THEN SplitAcc(Tail(s), <<>>, Append(acc, cur))
    ELSE SplitAcc(Tail(s), Append(cur, Head(s)), acc)

SplitLines(s) == SplitAcc(s, <<>>, <<>>)

StartsWithHash(line) == line # <<>> /\ Head(line) = "#"

\* a faulty filter that keeps comment lines
RECURSIVE FilterKeysKeepComments(_)
FilterKeysKeepComments(lines) ==
    IF lines = <<>> THEN <<>>
    ELSE IF Len(Head(lines)) > 0
         THEN <<Head(lines)>> \o FilterKeysKeepComments(Tail(lines))
         ELSE FilterKeysKeepComments(Tail(lines))

\* .filter(line => line.length > 0 && !line.startsWith('#'))
RECURSIVE FilterKeys(_)
FilterKeys(lines) ==
    IF lines = <<>> THEN <<>>
    ELSE IF Len(Head(lines)) > 0 /\ ~StartsWithHash(Head(lines))
         THEN <<Head(lines)>> \o FilterKeys(Tail(lines))
         ELSE FilterKeys(Tail(lines))

\* .split('\n').map(line => line.trim()).filter(...)
ParseKeyFile(content) ==
    FilterKeys([i \in 1..Len(SplitLines(content)) |-> Trim(SplitLines(content)[i])])

\* A key file: absent, present but unreadable (readFileSync throws), or text
NoFile == [exists |-> FALSE, readable |-> FALSE, content |-> <<>>]
Unreadable == [exists |-> TRUE, readable |-> FALSE, content |-> <<>>]
FileOf(content) == [exists |-> TRUE, readable |-> TRUE, content |-> content]

FileContents ==
    { <<"a", NL, "b", NL, "c">>,                      \* three keys
      <<" ", "a", "U+2003", NL, NL, "#", "x", NL, "b">>,   \* padding, blank, comment
      <<"#", "x", NL, " ", NL>> }                      \* comments and blanks only

\* deepgram-keys.txt ranges over every shape of file; gemini-keys.txt over the
\* absent file and the three-key file (the services share all the code)
FileStates(s) ==
    IF s = "deepgram"
    THEN {NoFile, Unreadable} \cup {FileOf(c) : c \in FileContents}
    ELSE {NoFile, FileOf(<<"a", NL, "b", NL, "c">>)}

\* process.env[envVar]: unset, the empty string, or a key
EnvUnset == [set |-> FALSE, value |-> <<>>]
EnvOf(v) == [set |-> TRUE, value |-> v]
EnvStates(s) ==
    IF s = "deepgram"
    THEN {EnvUnset, EnvOf(<<>>), EnvOf(<<"e">>)}
    ELSE {EnvUnset, EnvOf(<<"e">>)}

\* Map.has / Map.get on keysCache and currentIndex
NoEntry == [has |-> FALSE, keys |-> <<>>]
NoIndex == [has |-> FALSE, idx |-> 0]

\* loadKeys, lines 165-183: what a load that misses the cache computes
LoadThrows(s) == keyFile[s].exists /\ ~keyFile[s].readable

FileKeys(s) ==
    IF keyFile[s].exists THEN ParseKeyFile(keyFile[s].content) ELSE <<>>

EnvTruthy(s) == envVar[s].set /\ envVar[s].value # <<>>

LoadedKeys(s) ==
    IF Len(FileKeys(s)) = 0 /\ EnvTruthy(s) THEN <<envVar[s].value>> ELSE FileKeys(s)

\* a faulty loadKeys that reads the disk and the environment on every call
loadKeysUncached(s) == LoadedKeys(s)

\* loadKeys, lines 154-189: the keys it returns (cached ones first)
loadKeys(s) == IF keysCache[s].has THEN keysCache[s].keys ELSE LoadedKeys(s)

\* loadKeys' effect on the cache (line 186), when it does not throw
CacheAfterLoad(s) ==
    IF keysCache[s].has THEN keysCache
    ELSE [keysCache EXCEPT ![s] = [has |-> TRUE, keys |-> LoadedKeys(s)]]

loadKeysThrows(s) == ~keysCache[s].has /\ LoadThrows(s)

\* this.currentIndex.get(serviceName) || 0
IndexOf(s) == IF currentIndex[s].has THEN currentIndex[s].idx ELSE 0

\* faulty advances: one that skips a position, one that never wraps
NextIndexSkip(idx, len) == (idx + 2) % len
NextIndexNoWrap(idx, len) == idx + 1

\* line 97: (idx + 1) % keys.length
NextIndex(idx, len) == (idx + 1) % len

\* keys[idx]: undefined when idx is outside the array
Result(op, s, kind, key, idx) ==
    [op |-> op, svc |-> s, kind |-> kind, key |-> key, idx |-> idx]

NoResult == Result("none", "deepgram", "none", <<>>, 0)

-----------------------------------------------------------------------------
(* KeyRotation: operations *)

\* a faulty failure path that forgets the service's cursor
IndexAfterNoKeysReset(s) == [currentIndex EXCEPT ![s] = NoIndex]

\* lines 86-91: the throw comes before any write to currentIndex
IndexAfterNoKeys(s) == currentIndex

\* getNextKey, lines 83-100
GetNextKeyOp(s) ==
    IF loadKeysThrows(s)
    THEN /\ rotResult' = Result("getNextKey", s, "readError", <<>>, 0)
         /\ UNCHANGED <<currentIndex, keysCache>>
    ELSE LET keys == loadKeys(s)
             idx == IndexOf(s)
         IN /\ keysCache' = CacheAfterLoad(s)
            /\ IF Len(keys) = 0
               THEN /\ rotResult' = Result("getNextKey", s, "noKeys", <<>>, 0)
                    /\ currentIndex' = IndexAfterNoKeys(s)
               ELSE /\ currentIndex' =
                          [currentIndex EXCEPT
                              ![s] = [has |-> TRUE, idx |-> NextIndex(idx, Len(keys))]]
                    /\ rotResult' =
                          IF idx < Len(keys)
                          THEN Result("getNextKey", s, "key", keys[idx + 1], idx)
                          ELSE Result("getNextKey", s, "undefined", <<>>, idx)

\* a faulty read that moves the cursor on as getNextKey does
ReadOnlyOpAdvancing(op, s) ==
    IF loadKeysThrows(s)
    THEN /\ rotResult' = Result(op, s, "readError", <<>>, 0)
         /\ UNCHANGED <<currentIndex, keysCache>>
    ELSE /\ keysCache' = CacheAfterLoad(s)
         /\ rotResult' = Result(op, s, "value", <<>>, Len(loadKeys(s)))
         /\ currentIndex' =
               IF Len(loadKeys(s)) = 0 THEN currentIndex
               ELSE [currentIndex EXCEPT
                        ![s] = [has |-> TRUE,
                                idx |-> NextIndex(IndexOf(s), Len(loadKeys(s)))]]

\* getAllKeys / getKeyCount / hasKeys, lines 109-121 and 197-199
ReadOnlyOp(op, s) ==
    IF loadKeysThrows(s)
    THEN /\ rotResult' = Result(op, s, "readError", <<>>, 0)
         /\ UNCHANGED <<currentIndex, keysCache>>
    ELSE /\ keysCache' = CacheAfterLoad(s)
         /\ rotResult' = Result(op, s, "value", <<>>, Len(loadKeys(s)))
         /\ UNCHANGED currentIndex

\* resetRotation, lines 129-131
ResetRotationOp(s) ==
    /\ currentIndex' = [currentIndex EXCEPT ![s] = NoIndex]
    /\ rotResult' = Result("resetRotation", s, "void", <<>>, 0)
    /\ UNCHANGED keysCache

\* a faulty clearCache(serviceName) that empties the whole cache
ClearCacheOpEvery(s) ==
    /\ keysCache' = [t \in ServiceName |-> NoEntry]
    /\ rotResult' = Result("clearCache", s, "void", <<>>, 0)
    /\ UNCHANGED currentIndex

\* clearCache(serviceName), lines 139-145
ClearCacheOp(s) ==
    /\ keysCache' = [keysCache EXCEPT ![s] = NoEntry]
    /\ rotResult' = Result("clearCache", s, "void", <<>>, 0)
    /\ UNCHANGED currentIndex

\* clearCache(), lines 142-144
ClearAllOp ==
    /\ keysCache' = [t \in ServiceName |-> NoEntry]
    /\ rotResult' = Result("clearCacheAll", "deepgram", "void", <<>>, 0)
    /\ UNCHANGED currentIndex

\* new KeyRotation(), lines 50-66, over some state of the disk and environment
InitRotator ==
    /\ keyFile \in {f \in [ServiceName -> UNION {FileStates(s) : s \in ServiceName}] :
                      \A s \in ServiceName : f[s] \in FileStates(s)}
    /\ envVar \in {e \in [ServiceName -> UNION {EnvStates(s) : s \in ServiceName}] :
                      \A s \in ServiceName : e[s] \in EnvStates(s)}
    /\ currentIndex = [s \in ServiceName |-> NoIndex]
    /\ keysCache = [s \in ServiceName |-> NoEntry]
    /\ rotResult = NoResult
    /\ handed = <<>>

-----------------------------------------------------------------------------
(* Run correlation: GitHubAdapter.getRunStatus *)

\* line 52: Date.now() - 300000
FallbackWindowMs == 300000

\* s.includes(t): t occurs in s as a contiguous piece
Includes(s, t) ==
    \E i \in 0..(Len(s) - Len(t)) : SubSeq(s, i + 1, i + Len(t)) = t

\* the decimal digits of a number, as a template literal writes it
DigitChars == <<"0", "1", "2", "3", "4", "5", "6", "7", "8", "9">>

RECURSIVE Decimal(_)
Decimal(n) ==
    IF n < 10 THEN <<DigitChars[n + 1]>>
    ELSE Decimal(n \div 10) \o <<DigitChars[(n % 10) + 1]>>

\* ClipperService.generateWorkerId: `clipper-${timestamp}-${random}`
WorkerIdOf(ts, rnd) ==
    <<"c", "l", "i", "p", "p", "e", "r", "-">> \o Decimal(ts) \o <<"-">> \o rnd

\* the predicate of data.workflow_runs.find, lines 50-53
Matches(r, w, t) ==
    \/ Includes(r.name, w)
    \/ (r.event = "workflow_dispatch" /\ r.created_at > t - FallbackWindowMs)

\* Array.prototype.find: the first element satisfying the predicate, or undefined
RECURSIVE FindIndex(_, _, _, _)
FindIndex(runs, w, t, i) ==
    IF i > Len(runs) THEN 0
    ELSE IF Matches(runs[i], w, t) THEN i
    ELSE FindIndex(runs, w, t, i + 1)

FindRun(runs, w, t) == FindIndex(runs, w, t, 1)

NotFetched == [kind |-> "none", id |-> 0, status |-> "none", conclusion |-> "null"]
FetchError == [kind |-> "error", id |-> 0, status |-> "none", conclusion |-> "null"]
Null == [kind |-> "null", id |-> 0, status |-> "none", conclusion |-> "null"]

\* getRunStatus, lines 42-63, once listWorkflowRuns has returned `runs`
getRunStatus(runs, w, t) ==
    LET i == FindRun(runs, w, t)
    IN IF i = 0 THEN Null
       ELSE [kind |-> "run", id |-> runs[i].id, status |-> runs[i].status,
             conclusion |-> runs[i].conclusion]

\* the rotator as constructed, untouched by the correlation specifications
RotIdle ==
    /\ keyFile = [s \in ServiceName |-> NoFile]
    /\ envVar = [s \in ServiceName |-> EnvUnset]
    /\ currentIndex = [s \in ServiceName |-> NoIndex]
    /\ keysCache = [s \in ServiceName |-> NoEntry]
    /\ rotResult = NoResult
    /\ handed = <<>>

\* no job has been started
CorrIdle ==
    /\ now = 0
    /\ workerId = <<>>
    /\ dispatchTime = 0
    /\ listing = <<>>
    /\ fetched = NotFetched
    /\ remoteRuns = <<>>

\* the outcome of a process() call: still running, returned, or thrown
Outcome(kind, what) == [kind |-> kind, what |-> what]

\* pollWorkflowStatus called without its third argument: options = {}
NoOptions == [k \in {} |-> 0]

\* nothing polled, nothing generated, no stop request
AuxIdle ==
    /\ pollOptions = NoOptions
    /\ sleeps = 0
    /\ latencySum = 0
    /\ everFound = FALSE
    /\ cancelRequested = FALSE
    /\ issued = <<>>
    /\ foundId = 0
    /\ progress = <<>>
    /\ clockLag = 0

\* process() has not been called
SvcIdle ==
    /\ pc = "idle"
    /\ watch = FALSE
    /\ tgConfigured = FALSE
    /\ interval = 0
    /\ timeout = 0
    /\ startTime = 0
    /\ pollExit = "none"
    /\ result = NotFetched
    /\ caught = "none"
    /\ outcome = Outcome("running", "none")
    /\ dispatches = 0
    /\ fetches = 0
    /\ sendVideoCalls = 0
    /\ sendErrorCalls = 0
    /\ AuxIdle

InitRot == InitRotator /\ CorrIdle /\ SvcIdle

-----------------------------------------------------------------------------
(* The listings a status fetch may be answered with                         *)

\* the job under observation was dispatched at this time; its token carries the
\* suffix Math.random() gave it
JobDispatchTimes == {1000000}
JobSuffix == <<"a", "b", "1", "2", "c", "d">>
JobToken(t) == WorkerIdOf(t, JobSuffix)
OtherToken(t) == WorkerIdOf(t - 120000, <<"z", "z", "9", "9", "z", "z">>)

\* run names: the workflow's name alone, or a run-name carrying a worker id
PlainName ==
    <<"C", "l", "i", "p", "p", "e", "r", " ",
      "R", "e", "n", "d", "e", "r">>
TaggedName(w) == PlainName \o <<" ">> \o w

RunEvents == {"workflow_dispatch", "push"}

\* creation times: by a previous job two minutes earlier, or after the dispatch
CreationTimes(t) == {t - 120000, t + 1000, t + 8000}

\* times at which the status fetch is made: early, mid-way and late in a poll,
\* and half a second before a run created one second after the dispatch leaves
\* the window of line 52
FetchTimes(t) == {t + 10000, t + 200000, t + 300500, t + 400000}

\* how long listWorkflowRuns may take to answer, in milliseconds
ListLatencies == {0, 700}

RunShape(name, event, created) ==
    [name |-> name, event |-> event, created_at |-> created,
     status |-> "in_progress", conclusion |-> "null"]

\* untagged runs of any event and age; runs tagged with this job's token, created
\* after its dispatch; runs tagged with the previous job's token, created then
RunShapes(t) ==
    {RunShape(PlainName, e, c) : e \in RunEvents, c \in CreationTimes(t)}
    \cup {RunShape(TaggedName(JobToken(t)), "workflow_dispatch", c) : c \in {t + 1000, t + 8000}}
    \cup {RunShape(TaggedName(OtherToken(t)), "workflow_dispatch", t - 120000)}

\* a page of n runs; a run's id is unique in the page
PagesOf(S, n) ==
    { [i \in 1..n |-> [id |-> 100 + i, name |-> p[i].name, event |-> p[i].event,
                       created_at |-> p[i].created_at, status |-> p[i].status,
                       conclusion |-> p[i].conclusion]] : p \in [1..n -> S] }

Pages(S, max) == UNION {PagesOf(S, n) : n \in 0..max}

-----------------------------------------------------------------------------
(* SpecRot: any sequence of KeyRotation calls, the key files and the       *)
(* environment changing between calls                                      *)

GetNextKey(s) == GetNextKeyOp(s) /\ UNCHANGED <<keyFile, envVar, handed, nonRotVars>>

GetAllKeys(s) == ReadOnlyOp("getAllKeys", s) /\ UNCHANGED <<keyFile, envVar, handed, nonRotVars>>

GetKeyCount(s) == ReadOnlyOp("getKeyCount", s) /\ UNCHANGED <<keyFile, envVar, handed, nonRotVars>>

HasKeys(s) == ReadOnlyOp("hasKeys", s) /\ UNCHANGED <<keyFile, envVar, handed, nonRotVars>>

ResetRotation(s) == ResetRotationOp(s) /\ UNCHANGED <<keyFile, envVar, handed, nonRotVars>>

ClearCache(s) == ClearCacheOp(s) /\ UNCHANGED <<keyFile, envVar, handed, nonRotVars>>

ClearCacheAll == ClearAllOp /\ UNCHANGED <<keyFile, envVar, handed, nonRotVars>>

\* the operator edits a key file
WriteKeyFile(s) ==
    /\ \E f \in FileStates(s) : f # keyFile[s] /\ keyFile' = [keyFile EXCEPT ![s] = f]
    /\ UNCHANGED <<envVar, currentIndex, keysCache, rotResult, handed, nonRotVars>>

\* the environment variable is set, emptied or unset
SetEnv(s) ==
    /\ \E e \in EnvStates(s) : e # envVar[s] /\ envVar' = [envVar EXCEPT ![s] = e]
    /\ UNCHANGED <<keyFile, currentIndex, keysCache, rotResult, handed, nonRotVars>>

NextRot ==
    \/ \E s \in ServiceName : GetNextKey(s)
    \/ \E s \in ServiceName : GetAllKeys(s)
    \/ \E s \in ServiceName : GetKeyCount(s)
    \/ \E s \in ServiceName : HasKeys(s)
    \/ \E s \in ServiceName : ResetRotation(s)
    \/ \E s \in ServiceName : ClearCache(s)
    \/ ClearCacheAll
    \/ \E s \in ServiceName : WriteKeyFile(s)
    \/ \E s \in ServiceName : SetEnv(s)

SpecRot == InitRot /\ [][NextRot]_vars

-----------------------------------------------------------------------------
(* SpecRR: a freshly created rotator over a fixed disk and environment,    *)
(* several jobs of the same process calling getNextKey                     *)

\* getNextKey is synchronous: a caller's whole call runs between two awaits
CallGetNextKey(c, s) ==
    /\ Len(handed) < MaxCalls
    /\ GetNextKeyOp(s)
    /\ handed' = Append(handed, [caller |-> c, res |-> rotResult'])
    /\ UNCHANGED <<keyFile, envVar, nonRotVars>>

NextRR == \E c \in Callers, s \in ServiceName : CallGetNextKey(c, s)

SpecRR == InitRot /\ [][NextRR]_vars

-----------------------------------------------------------------------------
(* SpecLoad: a freshly created rotator loads deepgram's pool from every    *)
(* short key file, with the environment variable unset, empty or set       *)

MaxFileLen == 5

FileAlphabet == {"a", "#", " ", "\f", NL}

\* every text of at most n characters
TextsUpTo(n) == UNION {[1..k -> FileAlphabet] : k \in 0..n}

InitLoad ==
    /\ keyFile \in {[deepgram |-> FileOf(c), gemini |-> NoFile] : c \in TextsUpTo(MaxFileLen)}
          \cup {[deepgram |-> NoFile, gemini |-> NoFile]}
    /\ envVar \in {[deepgram |-> e, gemini |-> EnvUnset] : e \in EnvStates("deepgram")}
    /\ currentIndex = [s \in ServiceName |-> NoIndex]
    /\ keysCache = [s \in ServiceName |-> NoEntry]
    /\ rotResult = NoResult
    /\ handed = <<>>
    /\ CorrIdle
    /\ SvcIdle

\* the first access of a service, by any of the reading operations
FirstAccess(s) ==
    /\ ~keysCache[s].has
    /\ \/ GetAllKeys(s)
       \/ GetKeyCount(s)
       \/ HasKeys(s)

NextLoad == \E s \in ServiceName : FirstAccess(s)

SpecLoad == InitLoad /\ [][NextLoad]_vars

-----------------------------------------------------------------------------
(* ClipperService.process and pollWorkflowStatus *)

\* PollOptions defaults, src/src/core/ClipperService.ts line 99
DefaultIntervalMs == 5000
DefaultTimeoutMs == 600000

\* Math.random().toString(36).substring(2, 8)
RandomSuffixes ==
    { <<"a", "b", "1", "2", "c", "d">>,
      <<"x", "7", "y", "8", "z", "9">> }

\* what the remote may list while a job is watched: the job's run, its name
\* carrying the worker id or not, in any status the platform declares
RemoteStatuses ==
    { [status |-> "queued", conclusion |-> "null"],
      [status |-> "in_progress", conclusion |-> "null"],
      [status |-> "completed", conclusion |-> "success"],
      [status |-> "completed", conclusion |-> "failure"] }

WatchedRunShapes(w, t) ==
    { [name |-> n, event |-> "workflow_dispatch", created_at |-> t,
       status |-> s.status, conclusion |-> s.conclusion] :
          n \in {PlainName, TaggedName(w)}, s \in RemoteStatuses }

\* gitHub.getWorkflowUrl(), GitHubAdapter.ts lines 65-67: the Actions page
WorkflowUrl == "actions-page"

\* a faulty timeout result that reads as a failed workflow
TimeoutResultFailed ==
    [kind |-> "timeout", id |-> 0, status |-> "failed", conclusion |-> "null",
     checkUrl |-> WorkflowUrl]

\* line 131: { status: 'in_progress', checkUrl: gitHub.getWorkflowUrl() }
TimeoutResult ==
    [kind |-> "timeout", id |-> 0, status |-> "in_progress", conclusion |-> "null",
     checkUrl |-> WorkflowUrl]

\* a property read on a result object: undefined when the object lacks it
Undefined == "undefined"
DownloadUrlOf(r) == IF "downloadUrl" \in DOMAIN r THEN r.downloadUrl ELSE Undefined

\* TelegramAdapter.sendVideo(options), part_001 lines 18-25:
\* `const { videoPath, caption } = options` throws a TypeError on undefined
SendVideoDestructureThrows(options) == options = Undefined

\* generateWorkerId, lines 78-82, given Date.now() and the random suffix drawn
generateWorkerId(t, rnd) == WorkerIdOf(t, rnd)

\* GitHubAdapter.triggerWorkflow, lines 29-40: createWorkflowDispatch requests
\* issued by one call, whatever the platform answers; and a faulty variant that
\* sends the request again when the first one failed
RequestsPerTriggerRetry(api) == IF api = "error" THEN 2 ELSE 1

RequestsPerTrigger(api) == 1

\* lines 38 and 58: where process() goes once the dispatch has succeeded; and a
\* faulty variant that polls whatever watch is
AfterDispatchAlwaysPoll(w) == "poll_start"

AfterDispatch(w) == IF w THEN "poll_start" ELSE "done"

\* a faulty process() that carries on after a rejected dispatch
AfterTriggerIgnoreError(api, w) == AfterDispatch(w)

\* lines 32-35 and 62: a rejected createWorkflowDispatch throws out of the try
\* block into the catch block
AfterTrigger(api, w) == IF api = "error" THEN "catch" ELSE AfterDispatch(w)

\* process() is called: lines 24-28
ProcessStart ==
    /\ pc = "start"
    /\ workerId' = generateWorkerId(now, JobSuffix)
    /\ issued' = Append(issued, workerId')
    /\ pc' = "trigger"
    /\ UNCHANGED <<now, dispatchTime, listing, fetched, remoteRuns, rotVars>>
    /\ UNCHANGED <<watch, tgConfigured, interval, timeout, startTime, pollExit, result,
                   caught, outcome, dispatches, fetches, sendVideoCalls, sendErrorCalls>>
    /\ UNCHANGED <<pollOptions, sleeps, latencySum, everFound, cancelRequested,
                   foundId, progress, clockLag>>

\* how long createWorkflowDispatch may take to answer, in milliseconds
DispatchLatencies == {0, 700}

\* this.github.triggerWorkflow(...) is called, line 32: GitHubAdapter.triggerWorkflow
\* sends its createWorkflowDispatch request (GitHubAdapter.ts line 30) and
\* process() waits for the answer
TriggerWorkflow ==
    /\ pc = "trigger"
    /\ dispatchTime' = now
    /\ dispatches' = dispatches + 1
    /\ pc' = "dispatching"
    /\ UNCHANGED <<now, workerId, listing, fetched, remoteRuns, rotVars>>
    /\ UNCHANGED <<watch, tgConfigured, interval, timeout, startTime, pollExit, result,
                   caught, outcome, fetches, sendVideoCalls, sendErrorCalls, auxVars>>

\* the createWorkflowDispatch request is answered, after lat milliseconds, and
\* the await of line 32 resumes: lines 36-38 and 58-61 on success, the catch
\* block when the request was rejected
TriggerWorkflowSettles ==
    /\ pc = "dispatching"
    /\ \E lat \in DispatchLatencies : now' = now + lat
    /\ \E api \in {"ok", "error"} :
          /\ dispatches' = dispatches + RequestsPerTrigger(api) - 1
          /\ IF api = "error"
             THEN /\ caught' = "DispatchError"
                  /\ pc' = AfterTrigger(api, watch)
                  /\ UNCHANGED outcome
             ELSE /\ pc' = AfterTrigger(api, watch)
                  /\ outcome' = IF AfterDispatch(watch) = "done"
                                THEN Outcome("returned", "dispatched")
                                ELSE outcome
                  /\ UNCHANGED caught
    /\ UNCHANGED <<workerId, dispatchTime, listing, fetched, remoteRuns, rotVars>>
    /\ UNCHANGED <<watch, tgConfigured, interval, timeout, startTime, pollExit, result,
                   fetches, sendVideoCalls, sendErrorCalls, auxVars>>

\* const { interval = 5000, timeout = 600000 } = options: line 99
OptionOr(o, field, default) == IF field \in DOMAIN o THEN o[field] ELSE default

\* the loop condition, line 103; and a faulty variant that admits the boundary
WithinBudgetInclusive(t, start, to) == t - start <= to

WithinBudget(t, start, to) == t - start < to

\* how late a timer may fire, in milliseconds: the event loop runs a timer's
\* callback once its delay has passed on the loop's clock, later when the loop
\* is busy
MaxLateWake == 1

LateWakes == 0..MaxLateWake

\* how far Date.now() may read behind the loop's clock, in milliseconds: both
\* clocks count whole milliseconds and tick at different instants
MaxClockLag == 1

ClockLags == 0..MaxClockLag

\* a reading t2 of Date.now(), lag2 behind the loop's clock, can follow the
\* reading t that was lag behind it: neither clock runs backwards
LaterReading(t, lag, t2, lag2) == t2 >= t /\ t2 + lag2 >= t + lag

\* how far Date.now() may move between the reading of line 100 and the first
\* reading of line 103, in milliseconds: ora(...).start() runs between the two
MaxClockTurn == 1

ClockTurns == 0..MaxClockTurn

\* what Date.now() may read on line 103, and how far behind the loop's clock,
\* when it last read t with lag.  Before the first wait (n = 0) the last
\* reading is the one of line 100, and the clock may have turned since; after a
\* wait it is the reading that ended the wait
LoopReads(n, t, lag) ==
    IF n = 0
    THEN { rd \in [t : { t + turn : turn \in ClockTurns }, lag : ClockLags] :
               LaterReading(t, lag, rd.t, rd.lag) }
    ELSE { [t |-> t, lag |-> lag] }

\* what Date.now() shows of a wait beyond its delay: the time the timer fired
\* late, plus the lag of the reading before the wait, minus the lag of the
\* reading after it
TimerDrift(late, lagBefore, lagAfter) == late + lagBefore - lagAfter

\* Date.now() when the timer of lines 107 and 127 has fired, d milliseconds off
\* the interval asked for
SleepEnd(t, i, d) == t + i + d

\* pollWorkflowStatus(this.github, workerId): lines 40 and 99-101
PollStart ==
    /\ pc = "poll_start"
    /\ interval' = OptionOr(pollOptions, "interval", DefaultIntervalMs)
    /\ timeout' = OptionOr(pollOptions, "timeout", DefaultTimeoutMs)
    /\ startTime' = now
    /\ pc' = "poll_loop"
    /\ UNCHANGED <<corrVars, rotVars>>
    /\ UNCHANGED <<watch, tgConfigured, pollExit, result, caught, outcome, dispatches,
                   fetches, sendVideoCalls, sendErrorCalls, auxVars>>

\* while (Date.now() - startTime < timeout): line 103, and lines 130-131 after
\* it.  The first test reads Date.now() after line 100 has; a test after a wait
\* uses the reading that ended the wait
PollLoop ==
    /\ pc = "poll_loop"
    /\ \E rd \in LoopReads(sleeps, now, clockLag) :
          /\ now' = rd.t
          /\ clockLag' = rd.lag
          /\ IF WithinBudget(rd.t, startTime, timeout)
             THEN /\ pc' = "fetch"
                  /\ UNCHANGED <<pollExit, result>>
             ELSE /\ pollExit' = "timeout"
                  /\ result' = TimeoutResult
                  /\ pc' = "after_poll"
    /\ UNCHANGED <<workerId, dispatchTime, listing, fetched, remoteRuns, rotVars>>
    /\ UNCHANGED <<watch, tgConfigured, interval, timeout, startTime, caught, outcome,
                   dispatches, fetches, sendVideoCalls, sendErrorCalls>>
    /\ UNCHANGED <<pollOptions, sleeps, latencySum, everFound, cancelRequested, issued,
                   foundId, progress>>

\* lines 113-115: if (onProgress) { onProgress(status); }
HasOnProgress(o) == "onProgress" \in DOMAIN o

\* a faulty notification that assumes a found run is in progress
ProgressArgAssumed(st) == [st EXCEPT !.status = "in_progress"]

\* line 114: onProgress is handed the status object getRunStatus returned
ProgressArg(st) == st

\* a faulty loop body whose wait is never resolved
AfterStatusNeverWakes(st) == "waiting"

\* a faulty loop body that waits one more interval before it returns
AfterStatusSleepFirst(st) == "sleep"

\* what the loop body does with a status once getRunStatus has resolved:
\* lines 106-127
AfterStatus(st) ==
    IF st.kind = "null" THEN "sleep"
    ELSE IF st.status = "completed" THEN "return"
    ELSE IF st.status = "failed" THEN "return"
    ELSE "sleep"

\* gitHub.getRunStatus(workerId) is called, line 104: getRunStatus sends its
\* listWorkflowRuns request (GitHubAdapter.ts line 43) and the poll waits for
\* the answer; the `status` and `data` of the iteration before are out of scope,
\* and this call has produced neither yet
GetRunStatusCall ==
    /\ pc = "fetch"
    /\ fetches' = fetches + 1
    /\ listing' = <<>>
    /\ fetched' = NotFetched
    /\ pc' = "fetching"
    /\ UNCHANGED <<now, workerId, dispatchTime, remoteRuns, rotVars>>
    /\ UNCHANGED <<watch, tgConfigured, interval, timeout, startTime, pollExit, result,
                   caught, outcome, dispatches, sendVideoCalls, sendErrorCalls, auxVars>>

\* the listWorkflowRuns request is answered, after lat milliseconds, with one
\* of pages or with a rejection, and the await of line 104 resumes: lines
\* 50-62 of GitHubAdapter.ts, then lines 106-125; a rejection makes the await
\* throw out of pollWorkflowStatus.  Line 52 reads Date.now() anew: the reading
\* has a lag of its own
FetchFrom(lat, pages) ==
    /\ pc = "fetching"
    /\ now' = now + lat
    /\ \E lag \in ClockLags :
          /\ LaterReading(now, clockLag, now + lat, lag)
          /\ clockLag' = lag
    /\ latencySum' = latencySum + lat
    /\ \E api \in {"ok", "error"} :
          IF api = "error"
          THEN /\ fetched' = FetchError
               /\ pollExit' = "threw"
               /\ caught' = "FetchError"
               /\ pc' = "catch"
               /\ UNCHANGED <<listing, result, everFound, foundId, progress>>
          ELSE \E page \in pages :
               LET st == getRunStatus(page, workerId, now + lat)
               IN /\ listing' = page
                  /\ fetched' = st
                  /\ everFound' = (everFound \/ st.kind = "run")
                  /\ foundId' = IF foundId = 0 /\ st.kind = "run" THEN st.id
                                ELSE foundId
                  /\ progress' = IF st.kind = "run" /\ HasOnProgress(pollOptions)
                                 THEN Append(progress, ProgressArg(st))
                                 ELSE progress
                  /\ IF AfterStatus(st) = "return"
                     THEN /\ pollExit' = IF st.status = "completed" THEN "completed"
                                         ELSE "failed"
                          /\ result' = st
                          /\ pc' = "after_poll"
                     ELSE /\ pc' = AfterStatus(st)
                          /\ UNCHANGED <<pollExit, result>>
                  /\ UNCHANGED caught
    /\ UNCHANGED <<workerId, dispatchTime, remoteRuns, rotVars>>
    /\ UNCHANGED <<watch, tgConfigured, interval, timeout, startTime, outcome,
                   dispatches, fetches, sendVideoCalls, sendErrorCalls>>
    /\ UNCHANGED <<pollOptions, sleeps, cancelRequested, issued>>

\* the answer to a status fetch of a watched job: the page lists the job's run
\* or nothing
Fetch(lat) == FetchFrom(lat, Pages(WatchedRunShapes(workerId, dispatchTime), MaxListed))

\* await new Promise(r => setTimeout(r, interval)): lines 107 and 127.  The
\* wait lasts the interval, or longer, on the loop's clock; Date.now(), read
\* next on line 103, shows it up to MaxClockLag shorter or longer, and never
\* runs backwards
Sleep ==
    /\ pc = "sleep"
    /\ \E late \in LateWakes, lag \in ClockLags :
          /\ SleepEnd(now, interval, TimerDrift(late, clockLag, lag)) >= now
          /\ now' = SleepEnd(now, interval, TimerDrift(late, clockLag, lag))
          /\ clockLag' = lag
    /\ sleeps' = sleeps + 1
    /\ pc' = "poll_loop"
    /\ UNCHANGED <<workerId, dispatchTime, listing, fetched, remoteRuns, rotVars>>
    /\ UNCHANGED <<watch, tgConfigured, interval, timeout, startTime, pollExit, result,
                   caught, outcome, dispatches, fetches, sendVideoCalls, sendErrorCalls>>
    /\ UNCHANGED <<pollOptions, latencySum, everFound, cancelRequested, issued,
                   foundId, progress>>

\* the branches on result.status: lines 42-57
AfterPoll ==
    /\ pc = "after_poll"
    /\ IF result.status = "completed"
       THEN IF tgConfigured
            THEN /\ sendVideoCalls' = sendVideoCalls + 1
                 /\ IF SendVideoDestructureThrows(DownloadUrlOf(result))
                    THEN /\ caught' = "TypeError"
                         /\ pc' = "catch"
                         /\ UNCHANGED outcome
                    ELSE \E tg \in {"ok", "error"} :
                            IF tg = "ok"
                            THEN /\ pc' = "done"
                                 /\ outcome' = Outcome("returned", "succeeded")
                                 /\ UNCHANGED caught
                            ELSE /\ caught' = "TelegramError"
                                 /\ pc' = "catch"
                                 /\ UNCHANGED outcome
            ELSE /\ pc' = "done"
                 /\ outcome' = Outcome("returned", "succeeded")
                 /\ UNCHANGED <<caught, sendVideoCalls>>
       ELSE IF result.status = "failed"
       THEN /\ caught' = "WorkflowFailed"
            /\ pc' = "catch"
            /\ UNCHANGED <<outcome, sendVideoCalls>>
       ELSE /\ pc' = "done"
            /\ outcome' = Outcome("returned", "stillRunning")
            /\ UNCHANGED <<caught, sendVideoCalls>>
    /\ UNCHANGED <<corrVars, rotVars>>
    /\ UNCHANGED <<watch, tgConfigured, interval, timeout, startTime, pollExit, result,
                   dispatches, fetches, sendErrorCalls, auxVars>>

\* lines 67-69: sendError calls made by the catch block; and a faulty variant
\* that rethrows without notifying
ErrorNoticesNone(configured) == 0

ErrorNotices(configured) == IF configured THEN 1 ELSE 0

\* catch (error) { ... }: lines 62-72.  With telegram configured sendError is
\* called and its bot.sendMessage request (part_001 lines 27-41) awaited;
\* without it the error is rethrown at once
Catch ==
    /\ pc = "catch"
    /\ sendErrorCalls' = sendErrorCalls + ErrorNotices(tgConfigured)
    /\ IF tgConfigured
       THEN /\ pc' = "notifying"
            /\ UNCHANGED outcome
       ELSE /\ pc' = "done"
            /\ outcome' = Outcome("thrown", caught)
    /\ UNCHANGED <<corrVars, rotVars>>
    /\ UNCHANGED <<watch, tgConfigured, interval, timeout, startTime, pollExit, result,
                   caught, dispatches, fetches, sendVideoCalls, auxVars>>

\* the bot.sendMessage request is answered and the await of line 68 resumes:
\* `throw error` on line 71, or the rejection of sendError itself
SendErrorSettles ==
    /\ pc = "notifying"
    /\ pc' = "done"
    /\ \E tg \in {"ok", "error"} :
          outcome' = IF tg = "ok" THEN Outcome("thrown", caught)
                     ELSE Outcome("thrown", "TelegramError")
    /\ UNCHANGED <<corrVars, rotVars>>
    /\ UNCHANGED <<watch, tgConfigured, interval, timeout, startTime, pollExit, result,
                   caught, dispatches, fetches, sendVideoCalls, sendErrorCalls, auxVars>>

\* one process(url, watch) call of the service the CLI constructs: cli/index.ts
\* lines 20-25 call validateConfig (config.ts lines 76-89) first, which throws
\* unless TELEGRAM_TOKEN and CHAT_ID are set, so telegram is configured
InitSvc ==
    /\ RotIdle
    /\ now \in JobDispatchTimes
    /\ workerId = <<>>
    /\ dispatchTime = 0
    /\ listing = <<>>
    /\ fetched = NotFetched
    /\ remoteRuns = <<>>
    /\ pc = "start"
    /\ watch \in BOOLEAN
    /\ tgConfigured = TRUE
    /\ interval = 0
    /\ timeout = 0
    /\ startTime = 0
    /\ pollExit = "none"
    /\ result = NotFetched
    /\ caught = "none"
    /\ outcome = Outcome("running", "none")
    /\ dispatches = 0
    /\ fetches = 0
    /\ sendVideoCalls = 0
    /\ sendErrorCalls = 0
    /\ AuxIdle

NextSvc ==
    \/ ProcessStart
    \/ TriggerWorkflow
    \/ TriggerWorkflowSettles
    \/ PollStart
    \/ PollLoop
    \/ GetRunStatusCall
    \/ Fetch(0)
    \/ Sleep
    \/ AfterPoll
    \/ Catch
    \/ SendErrorSettles

SpecSvc == InitSvc /\ [][NextSvc]_vars

(***************************************************************************)
(* pollWorkflowStatus called on its own, with explicit PollOptions, against *)
(* a GitHub API that takes time to answer.  Times are milliseconds.         *)
(***************************************************************************)

MaxInterval == 3
MaxTimeout == 6
MaxLatency == 1

\* the options of one call: short intervals and timeouts, and the 5 s / 10 s pair
PollOptionChoices ==
    { [interval |-> i, timeout |-> t] : i \in 1..MaxInterval, t \in 0..MaxTimeout }
        \cup { [interval |-> 5000, timeout |-> 10000] }

\* how long one getRunStatus call may take
FetchLatencies == 0..MaxLatency

\* somebody asks the running poll to stop.  PollOptions (part_003) carries
\* interval, timeout and onProgress only, and lines 94-132 read no signal, flag
\* or token: the request changes nothing the loop looks at
RequestCancel ==
    /\ pc \in {"poll_loop", "fetch", "fetching", "sleep"}
    /\ ~cancelRequested
    /\ cancelRequested' = TRUE
    /\ UNCHANGED <<corrVars, rotVars>>
    /\ UNCHANGED <<pc, watch, tgConfigured, interval, timeout, startTime, pollExit,
                   result, caught, outcome, dispatches, fetches, sendVideoCalls,
                   sendErrorCalls>>
    /\ UNCHANGED <<pollOptions, sleeps, latencySum, everFound, issued, foundId,
                   progress, clockLag>>

\* pollWorkflowStatus(gitHub, workerId, options) for a job dispatched just now,
\* options being one of choices
PollCall(choices) ==
    /\ RotIdle
    /\ now \in JobDispatchTimes
    /\ workerId = JobToken(now)
    /\ dispatchTime = now
    /\ listing = <<>>
    /\ fetched = NotFetched
    /\ remoteRuns = <<>>
    /\ pc = "poll_start"
    /\ watch = TRUE
    /\ tgConfigured = FALSE
    /\ interval = 0
    /\ timeout = 0
    /\ startTime = 0
    /\ pollExit = "none"
    /\ result = NotFetched
    /\ caught = "none"
    /\ outcome = Outcome("running", "none")
    /\ dispatches = 0
    /\ fetches = 0
    /\ sendVideoCalls = 0
    /\ sendErrorCalls = 0
    /\ pollOptions \in choices
    /\ sleeps = 0
    /\ latencySum = 0
    /\ everFound = FALSE
    /\ cancelRequested = FALSE
    /\ issued = <<>>
    /\ foundId = 0
    /\ progress = <<>>
    /\ clockLag = 0

InitPoll == PollCall(PollOptionChoices)

NextPoll ==
    \/ PollStart
    \/ PollLoop
    \/ GetRunStatusCall
    \/ \E lat \in FetchLatencies : Fetch(lat)
    \/ Sleep

SpecPoll == InitPoll /\ [][NextPoll]_vars

\* the same call, with a stop request made at some point of the poll
NextCancel == NextPoll \/ RequestCancel

SpecCancel == InitPoll /\ [][NextCancel]_vars

\* the same call on a running event loop: a pending promise continuation or a
\* due timer is eventually run, so the poll takes its next step while it has one
SpecPollFair == SpecPoll /\ WF_vars(NextPoll)

(***************************************************************************)
(* pollWorkflowStatus called with an onProgress callback                   *)
(***************************************************************************)

\* the options of one call that passes a callback
ProgressOptionChoices ==
    { [interval |-> i, timeout |-> t, onProgress |-> TRUE] :
          i \in 1..MaxInterval, t \in 0..MaxTimeout }

InitProg == PollCall(ProgressOptionChoices)

NextProg ==
    \/ PollStart
    \/ PollLoop
    \/ GetRunStatusCall
    \/ Fetch(0)
    \/ Sleep

SpecProg == InitProg /\ [][NextProg]_vars

(***************************************************************************)
(* One status fetch of a poll with the default options, made at one of     *)
(* FetchTimes and answered, some time later, with any page of at most      *)
(* MaxRuns runs or with a rejection.                                       *)
(***************************************************************************)

InitCorr ==
    /\ RotIdle
    /\ dispatchTime \in JobDispatchTimes
    /\ workerId = JobToken(dispatchTime)
    /\ now \in FetchTimes(dispatchTime)
    /\ listing = <<>>
    /\ fetched = NotFetched
    /\ remoteRuns = <<>>
    /\ pc = "fetch"
    /\ watch = TRUE
    /\ tgConfigured = TRUE
    /\ interval = DefaultIntervalMs
    /\ timeout = DefaultTimeoutMs
    /\ startTime = dispatchTime
    /\ pollExit = "none"
    /\ result = NotFetched
    /\ caught = "none"
    /\ outcome = Outcome("running", "none")
    /\ dispatches = 1
    /\ fetches = 0
    /\ sendVideoCalls = 0
    /\ sendErrorCalls = 0
    /\ AuxIdle

NextCorr ==
    \/ GetRunStatusCall
    \/ \E lat \in ListLatencies :
          FetchFrom(lat, Pages(RunShapes(dispatchTime), MaxRuns))

SpecCorr == InitCorr /\ [][NextCorr]_vars

(***************************************************************************)
(* One poll against a repository whose list of workflow runs changes while *)
(* the poll is running: runs appear, newest first, and runs complete.      *)
(***************************************************************************)

MaxRemoteRuns == 2

\* a poll long enough for a run to leave the five-minute window
WatchOptionChoices == { [interval |-> 100000, timeout |-> 400000] }

\* a run as the listing shows it; its id is given once and kept
RemoteRun(id, name, event, created) ==
    [id |-> id, name |-> name, event |-> event, created_at |-> created,
     status |-> "in_progress", conclusion |-> "null"]

\* what a run started now may look like: the watched job's run, its name
\* carrying the worker id or not, another job's dispatch, or a push build
NewRunShapes ==
    { [name |-> n, event |-> e] :
          n \in {PlainName, TaggedName(workerId)}, e \in {"workflow_dispatch"} }
        \cup { [name |-> PlainName, event |-> "push"] }

\* a workflow run starts: the listing shows it first; one run at most carries
\* the worker id of the watched job
RemoteRunStarts ==
    /\ Len(remoteRuns) < MaxRemoteRuns
    /\ \E sh \in NewRunShapes :
          /\ sh.name = TaggedName(workerId) =>
                \A i \in 1..Len(remoteRuns) : remoteRuns[i].name # TaggedName(workerId)
          /\ remoteRuns' = <<RemoteRun(Len(remoteRuns) + 1, sh.name, sh.event, now)>> \o remoteRuns
    /\ UNCHANGED <<now, workerId, dispatchTime, listing, fetched, rotVars, svcVars>>

\* a running workflow run completes
RemoteRunCompletes ==
    /\ \E i \in 1..Len(remoteRuns) :
          /\ remoteRuns[i].status = "in_progress"
          /\ remoteRuns' = [remoteRuns EXCEPT ![i].status = "completed",
                                        ![i].conclusion = "success"]
    /\ UNCHANGED <<now, workerId, dispatchTime, listing, fetched, rotVars, svcVars>>

InitWatch == PollCall(WatchOptionChoices)

NextWatch ==
    \/ PollStart
    \/ PollLoop
    \/ GetRunStatusCall
    \/ FetchFrom(0, {remoteRuns})
    \/ Sleep
    \/ RemoteRunStarts
    \/ RemoteRunCompletes

SpecWatch == InitWatch /\ [][NextWatch]_vars

(***************************************************************************)
(* Several process() calls in one Node process: each begins by generating  *)
(* its worker id from the clock and a random draw (lines 25 and 78-82).    *)
(***************************************************************************)

MaxJobs == 3
MaxTicks == 2

\* the first statement of a process() call: const workerId = generateWorkerId()
CallGenerateWorkerId ==
    /\ Len(issued) < MaxJobs
    /\ \E rnd \in RandomSuffixes : issued' = Append(issued, generateWorkerId(now, rnd))
    /\ UNCHANGED <<corrVars, rotVars>>
    /\ UNCHANGED <<pc, watch, tgConfigured, interval, timeout, startTime, pollExit,
                   result, caught, outcome, dispatches, fetches, sendVideoCalls,
                   sendErrorCalls>>
    /\ UNCHANGED <<pollOptions, sleeps, latencySum, everFound, cancelRequested,
                   foundId, progress, clockLag>>

\* Date.now() moves on by a millisecond between two calls
ClockTick ==
    /\ \E t0 \in JobDispatchTimes : now < t0 + MaxTicks
    /\ now' = now + 1
    /\ UNCHANGED <<workerId, dispatchTime, listing, fetched, remoteRuns, rotVars, svcVars>>

InitTok ==
    /\ RotIdle
    /\ now \in JobDispatchTimes
    /\ workerId = <<>>
    /\ dispatchTime = 0
    /\ listing = <<>>
    /\ fetched = NotFetched
    /\ remoteRuns = <<>>
    /\ SvcIdle

NextTok == CallGenerateWorkerId \/ ClockTick

SpecTok == InitTok /\ [][NextTok]_vars

-----------------------------------------------------------------------------
(* Claims about KeyRotation *)

\* the getNextKey results of service s, in call order (all callers)
HandedTo(s) == SelectSeq(handed, LAMBDA e : e.res.svc = s)

PoolOf(s) == keysCache[s].keys

HasPool(s) == keysCache[s].has /\ Len(PoolOf(s)) >= 1

\* C4: on a freshly created rotator with a pool of n >= 1 keys, the first n
\* getNextKey calls of a service return the keys at positions 0..n-1 in pool
\* order, each once, and the (n+1)-th call returns the key of the 1st call.
C4_RoundRobinWraparound ==
    \A s \in ServiceName :
        HasPool(s) =>
            LET h == HandedTo(s)
                n == Len(PoolOf(s))
            IN /\ \A i \in 1..Len(h) :
                      i <= n => /\ h[i].res.kind = "key"
                                /\ h[i].res.idx = i - 1
                                /\ h[i].res.key = PoolOf(s)[i]
               /\ Len(h) >= n + 1 => h[n + 1].res.kind = "key"
                                     /\ h[n + 1].res.key = h[1].res.key

\* a three-key pool whose fourth call has wrapped around
C4_Witness ==
    \E s \in ServiceName :
        /\ HasPool(s) /\ Len(PoolOf(s)) = 3
        /\ Len(HandedTo(s)) = 4
        /\ HandedTo(s)[4].res.key = PoolOf(s)[1]

\* C5: for every service with a loaded pool, the rotation cursor lies in
\* [0, len) of that pool, and getNextKey never reads outside the pool.
C5_CursorInRange ==
    /\ \A s \in ServiceName : HasPool(s) => IndexOf(s) < Len(PoolOf(s))
    /\ rotResult.kind # "undefined"

\* C6: with several callers of getNextKey on one service, after k completed
\* calls on a pool of n keys the cursor is k mod n and the i-th call received
\* position (i-1) mod n: no position is handed out twice in a round, none is
\* skipped, whichever caller made the call.
C6_AtomicReadAdvance ==
    \A s \in ServiceName :
        HasPool(s) =>
            LET h == HandedTo(s)
                n == Len(PoolOf(s))
            IN /\ IndexOf(s) = Len(h) % n
               /\ \A i \in 1..Len(h) :
                      /\ h[i].res.idx = (i - 1) % n
                      /\ h[i].res.key = PoolOf(s)[((i - 1) % n) + 1]
               /\ \A i, j \in 1..Len(h) :
                      (i < j /\ j - i < n) => h[i].res.idx # h[j].res.idx

\* two callers interleaved on one service: job1, job2, job1
C6_Witness ==
    \E s \in ServiceName :
        /\ HasPool(s) /\ Len(PoolOf(s)) >= 2
        /\ Len(HandedTo(s)) >= 3
        /\ HandedTo(s)[1].caller = "job1"
        /\ HandedTo(s)[2].caller = "job2"
        /\ HandedTo(s)[3].caller = "job1"

-----------------------------------------------------------------------------
(* Claims about run correlation *)

\* the tolerance window of the time fallback, as the specification and
\* scripts/test-render.js (startTime - 10000) state it
ToleranceWindowMs == 10000

Fetched == fetched.kind \in {"null", "run"}

HasToken(i) == Includes(listing[i].name, workerId)

TokenRuns == {i \in 1..Len(listing) : HasToken(i)}

\* position in the page of the run that getRunStatus returned
ReturnedIndex == CHOOSE i \in 1..Len(listing) : listing[i].id = fetched.id

\* the time fallback as the code applies it, and as the specification states it
PassesCodeWindow(i) ==
    /\ listing[i].event = "workflow_dispatch"
    /\ listing[i].created_at > now - FallbackWindowMs

PassesSpecWindow(i) ==
    /\ listing[i].event = "workflow_dispatch"
    /\ listing[i].created_at > dispatchTime - ToleranceWindowMs

Abs(x) == IF x < 0 THEN -x ELSE x

DistanceToDispatch(i) == Abs(listing[i].created_at - dispatchTime)

\* C7: when exactly one run of the page contains the token, getRunStatus
\* returns that run, whatever the other runs are and wherever they stand.
C7_UniqueTokenRunReturned ==
    (Fetched /\ Cardinality(TokenRuns) = 1) =>
        /\ fetched.kind = "run"
        /\ \A i \in TokenRuns : fetched.id = listing[i].id

\* C8: when no run contains the token and exactly two runs pass the time
\* fallback (under the code's window and the specification's alike, no other
\* run passing either), the run returned is the one created closest to the
\* dispatch time.
C8_ClosestToDispatchReturned ==
    LET cands == {i \in 1..Len(listing) : PassesCodeWindow(i) /\ PassesSpecWindow(i)}
    IN (/\ Fetched
        /\ TokenRuns = {}
        /\ Cardinality(cands) = 2
        /\ \A i \in 1..Len(listing) : PassesCodeWindow(i) <=> PassesSpecWindow(i))
       => /\ fetched.kind = "run"
          /\ \A j \in cands : DistanceToDispatch(ReturnedIndex) <= DistanceToDispatch(j)

\* C9: a returned run that does not contain the token is a dispatch-type run
\* created later than dispatchTime - 10 s.
C9_FallbackWithinTolerance ==
    (fetched.kind = "run" /\ ~HasToken(ReturnedIndex)) =>
        /\ listing[ReturnedIndex].event = "workflow_dispatch"
        /\ listing[ReturnedIndex].created_at > dispatchTime - ToleranceWindowMs

\* C10: a status fetch that was answered returned null exactly when no run of
\* the page matches: none contains the token and none passes the time fallback
\* (a dispatch run created later than dispatchTime - 10 s); an empty page gives
\* null.
C10_NullIffNoMatch ==
    Fetched =>
        (fetched.kind = "null" <=>
            \A i \in 1..Len(listing) : ~HasToken(i) /\ ~PassesSpecWindow(i))

-----------------------------------------------------------------------------
(* Claims about the poller and the orchestrator *)

\* C1: a status fetch that throws never ends the poll: after it the poller
\* sleeps and fetches again, and pollWorkflowStatus ends only by returning a
\* completed status or at the timeout boundary.
C1_TransientFetchErrorSwallowed ==
    /\ fetched.kind = "error" => (pollExit = "none" /\ pc \in {"sleep", "poll_loop", "fetch", "fetching"})
    /\ pollExit \in {"none", "completed", "timeout"}

\* C2: when the poll returned status completed with conclusion failure,
\* telegram.sendVideo is never called and process() ends by throwing the
\* workflow failure.
C2_FailureConclusionNotDelivered ==
    (pollExit = "completed" /\ result.conclusion = "failure") =>
        /\ sendVideoCalls = 0
        /\ pc = "done" => outcome = Outcome("thrown", "WorkflowFailed")

\* C3: when the dispatcher or the poller failed with error E, process() ends
\* by throwing E, also when telegram.sendError failed.
C3_NotificationFailureDoesNotMask ==
    (pc = "done" /\ caught \in {"DispatchError", "FetchError"}) =>
        outcome = Outcome("thrown", caught)

-----------------------------------------------------------------------------
(* Claims about the timeout, the poll cadence and the watch flag *)

\* C11: when the poll ran out of time, what pollWorkflowStatus returned is
\* neither completed nor failed and carries the follow-up link, and process()
\* treats it as still running: nothing is caught, no sendError and no sendVideo
\* call is made, and process() returns normally.
C11_TimeoutSurfacedAsStillRunning ==
    pollExit = "timeout" =>
        /\ result.status \notin {"completed", "failed"}
        /\ "checkUrl" \in DOMAIN result
        /\ caught = "none"
        /\ sendErrorCalls = 0
        /\ sendVideoCalls = 0
        /\ pc \in {"after_poll", "done"}
        /\ pc = "done" => outcome = Outcome("returned", "stillRunning")

C11_Witness ==
    /\ pollExit = "timeout"
    /\ pc = "done"
    /\ fetches > 0
    /\ outcome = Outcome("returned", "stillRunning")

\* time since pollWorkflowStatus read its start time, line 100
Elapsed == now - startTime

\* C12: a poll that ran out of time has returned no later than timeout plus
\* the time spent inside the status fetches.
C12_TimeoutReturnWithinLatency ==
    pollExit = "timeout" => Elapsed <= timeout + latencySum

\* the least n with n * b >= a
CeilDiv(a, b) == (a + b - 1) \div b

\* C13: a poll whose fetches all took no time and found no run, and which ran
\* out of time, has made ceil(timeout / interval) fetches (none for timeout 0,
\* two for timeout 10 s and interval 5 s) and returned the timeout result.
C13_FetchCountOnTimeout ==
    (pollExit = "timeout" /\ ~everFound /\ latencySum = 0) =>
        /\ fetches = CeilDiv(timeout, interval)
        /\ (interval = 5000 /\ timeout = 10000) => fetches = 2
        /\ timeout = 0 => fetches = 0
        /\ result = TimeoutResult

\* fetch.
C15_NoFetchAfterCancel ==
    [][cancelRequested => fetches' = fetches]_vars

\* C16: a process() call with watch = false never reaches the poller: no status
\* fetch, no sleep, no sendVideo call, and after a successful dispatch no
\* sendError call, and it returns the dispatched outcome.
C16_NoWatchReturnsAfterDispatch ==
    ~watch =>
        /\ pc \in {"start", "trigger", "dispatching", "catch", "notifying", "done"}
        /\ pollExit = "none"
        /\ fetches = 0
        /\ sleeps = 0
        /\ sendVideoCalls = 0
        /\ caught = "none" => sendErrorCalls = 0
        /\ (pc = "done" /\ caught = "none") =>
              (outcome = Outcome("returned", "dispatched") /\ dispatches = 1)

C16_Witness ==
    /\ ~watch
    /\ pc = "done"
    /\ dispatches = 1
    /\ outcome = Outcome("returned", "dispatched")

\* C17: a watched process() call whose poll returned completed with conclusion
\* success ends with the succeeded outcome, after exactly one sendVideo call
\* that was given the artifact reference of the run.
C17_SuccessDeliveredOnce ==
    (pc = "done" /\ pollExit = "completed" /\ result.conclusion = "success") =>
        /\ outcome = Outcome("returned", "succeeded")
        /\ sendVideoCalls = 1
        /\ DownloadUrlOf(result) # Undefined

\* C18: every process() call that ended by throwing, and every one whose run
\* concluded in failure, has thrown after exactly one sendError call; the call
\* is made by the catch block, once, before process() ends, and an error once
\* caught always ends in a throw.
C18_EveryFatalOutcomeNotified ==
    /\ (pc = "done" /\ outcome.kind = "thrown") => sendErrorCalls = 1
    /\ (pc = "done" /\ pollExit = "completed" /\ result.conclusion = "failure") =>
          (outcome.kind = "thrown" /\ sendErrorCalls = 1)
    /\ pc \notin {"notifying", "done"} => sendErrorCalls = 0
    /\ pc = "notifying" => (sendErrorCalls = 1 /\ outcome.kind = "running")
    /\ (pc = "done" /\ caught # "none") => outcome.kind = "thrown"

C18_Witness ==
    /\ pc = "done"
    /\ tgConfigured
    /\ caught = "FetchError"
    /\ outcome.kind = "thrown"
    /\ sendErrorCalls = 1

\* C19: one process() call issues at most one dispatch request: exactly one
\* once triggerWorkflow has been called, also when that call failed, and a
\* failed dispatch is followed by no status fetch.
C19_SingleDispatchRequest ==
    /\ dispatches <= 1
    /\ pc \notin {"start", "trigger"} => dispatches = 1
    /\ pc = "dispatching" => (caught = "none" /\ outcome.kind = "running")
    /\ caught = "DispatchError" => (dispatches = 1 /\ fetches = 0)

C19_Witness ==
    /\ pc = "done"
    /\ caught = "DispatchError"
    /\ dispatches = 1
    /\ outcome.kind = "thrown"

\* C20: no two process() calls of one Node process were given the same worker
\* id.
C20_TokensUnique ==
    \A i, j \in 1..Len(issued) : i # j => issued[i] # issued[j]

-----------------------------------------------------------------------------
(* Claims about progress notifications, key loading, delivery, ordering,   *)
(* termination and correlation stability                                   *)

\* C21: a poll given an onProgress callback calls it once for every status
\* fetch that found a run, right after that fetch and with the status the run
\* had in the page fetched; no other step calls it, and a call never alters or
\* removes what earlier calls were given.
C21_ProgressFollowsFetches ==
    [][IF pc = "fetching" /\ pc' # "fetching" /\ fetched'.kind = "run"
       THEN /\ progress' = Append(progress, fetched')
            /\ \E i \in 1..Len(listing') :
                  /\ listing'[i].id = fetched'.id
                  /\ listing'[i].status = progress'[Len(progress')].status
       ELSE progress' = progress]_vars

C21_Witness ==
    /\ Len(progress) = 3
    /\ progress[1].status = "in_progress"
    /\ progress[2].status = "queued"
    /\ progress[3].status = "completed"
    /\ fetches > 3

\* the step is a call of operation op for service s
CallOf(op, s) ==
    /\ rotResult'.op = op
    /\ rotResult'.svc = s
    /\ UNCHANGED <<keyFile, envVar>>

\* the service has no credentials: its key file is absent or yields no key, its
\* environment variable is unset or empty, and no key is cached for it
NoCredentials(s) ==
    /\ ~LoadThrows(s)
    /\ FileKeys(s) = <<>>
    /\ ~EnvTruthy(s)
    /\ keysCache[s].has => keysCache[s].keys = <<>>

\* C22: a getNextKey call for a service without credentials fails with the
\* no-keys error and leaves the rotation cursor of every service as it was.
C22_NoCredentialsFailsCursorKept ==
    [][\A s \in ServiceName :
          (CallOf("getNextKey", s) /\ GetNextKey(s) /\ NoCredentials(s)) =>
              /\ rotResult' = Result("getNextKey", s, "noKeys", <<>>, 0)
              /\ currentIndex' = currentIndex]_vars

C22_Witness ==
    /\ rotResult = Result("getNextKey", "deepgram", "noKeys", <<>>, 0)
    /\ NoCredentials("deepgram")
    /\ keyFile["deepgram"] = NoFile
    /\ currentIndex["deepgram"].has
    /\ currentIndex["deepgram"].idx >= 1
    /\ currentIndex["gemini"].has

\* what getNextKey(s) would answer if it were the next call, the cache being
\* `cache` and the cursors `index`, over the disk and environment as they are
NextKeyView(cache, index, s) ==
    LET keys == IF cache[s].has THEN cache[s].keys ELSE LoadedKeys(s)
        idx == IF index[s].has THEN index[s].idx ELSE 0
    IN IF ~cache[s].has /\ LoadThrows(s)
       THEN Result("getNextKey", s, "readError", <<>>, 0)
       ELSE IF Len(keys) = 0 THEN Result("getNextKey", s, "noKeys", <<>>, 0)
       ELSE IF idx < Len(keys) THEN Result("getNextKey", s, "key", keys[idx + 1], idx)
       ELSE Result("getNextKey", s, "undefined", <<>>, idx)

ReadOnlyStep(s) ==
    \/ CallOf("getAllKeys", s) /\ GetAllKeys(s)
    \/ CallOf("getKeyCount", s) /\ GetKeyCount(s)
    \/ CallOf("hasKeys", s) /\ HasKeys(s)

\* C23: a getAllKeys, getKeyCount or hasKeys call, in any state, leaves every
\* rotation cursor as it was, and what the next getNextKey call would answer,
\* for any service, is the same after the call as before it.
C23_ReadsKeepRotation ==
    [][\A s \in ServiceName :
          ReadOnlyStep(s) =>
              /\ currentIndex' = currentIndex
              /\ \A t \in ServiceName :
                    NextKeyView(keysCache', currentIndex', t) =
                        NextKeyView(keysCache, currentIndex, t)]_vars

C23_Witness ==
    /\ rotResult.op \in {"getAllKeys", "getKeyCount", "hasKeys"}
    /\ rotResult.kind = "value"
    /\ rotResult.idx = 3
    /\ currentIndex[rotResult.svc].has
    /\ currentIndex[rotResult.svc].idx = 2

AccessStep(s) == (CallOf("getNextKey", s) /\ GetNextKey(s)) \/ ReadOnlyStep(s)

\* what a call answers when it is served from the pool `keys`
AnswerFrom(keys, s) ==
    IF rotResult'.op = "getNextKey"
    THEN rotResult' =
            (IF Len(keys) = 0 THEN Result("getNextKey", s, "noKeys", <<>>, 0)
             ELSE IF IndexOf(s) < Len(keys)
             THEN Result("getNextKey", s, "key", keys[IndexOf(s) + 1], IndexOf(s))
             ELSE Result("getNextKey", s, "undefined", <<>>, IndexOf(s)))
    ELSE rotResult'.kind = "value" /\ rotResult'.idx = Len(keys)

\* C24: once a pool is cached for a service, every getNextKey, getAllKeys,
\* getKeyCount and hasKeys call is answered from it and leaves it as it is,
\* whatever the key file and the environment have become; a change of the file
\* or the environment does not touch it; only clearCache, for that service or
\* for all, removes it; and an access that finds no cached pool caches what the
\* key file and the environment hold at that moment, an empty pool included.
C24_LoadMemoizedUntilCleared ==
    [][\A s \in ServiceName :
          /\ (keysCache[s].has /\ AccessStep(s)) =>
                (keysCache' = keysCache /\ AnswerFrom(keysCache[s].keys, s))
          /\ (keysCache[s].has /\ keysCache'[s].has) =>
                keysCache'[s].keys = keysCache[s].keys
          /\ (keysCache[s].has /\ ~keysCache'[s].has) =>
                (ClearCache(s) \/ ClearCacheAll)
          /\ (ClearCache(s) \/ ClearCacheAll) => ~keysCache'[s].has
          /\ (~keysCache[s].has /\ AccessStep(s) /\ ~LoadThrows(s)) =>
                /\ keysCache'[s] = [has |-> TRUE, keys |-> LoadedKeys(s)]
                /\ AnswerFrom(LoadedKeys(s), s)]_vars

C24_Witness ==
    /\ keysCache["deepgram"].has
    /\ ~LoadThrows("deepgram")
    /\ Len(keysCache["deepgram"].keys) # Len(LoadedKeys("deepgram"))
    /\ rotResult.svc = "deepgram"
    /\ rotResult.kind = "value"
    /\ rotResult.idx = Len(keysCache["deepgram"].keys)

\* the least and the greatest of a non-empty set of numbers
Least(S) == CHOOSE x \in S : \A y \in S : x <= y
Greatest(S) == CHOOSE x \in S : \A y \in S : x >= y

\* where the newlines of a text are, and where its lines start
NewlinesOf(c) == {i \in 1..Len(c) : c[i] = NL}
LineStarts(c) == {1} \cup {i + 1 : i \in NewlinesOf(c)}

\* the line starting at p: up to the next newline or the end of the text
LineAt(c, p) ==
    SubSeq(c, p, Least({i \in NewlinesOf(c) : i >= p} \cup {Len(c) + 1}) - 1)

\* a line without the white space around it
Trimmed(l) ==
    LET ink == {i \in 1..Len(l) : ~IsSpace(l[i])}
    IN IF ink = {} THEN <<>> ELSE SubSeq(l, Least(ink), Greatest(ink))

\* the starts of the lines that hold a key: not blank, not a comment
KeyLineStarts(c) ==
    {p \in LineStarts(c) : Trimmed(LineAt(c, p)) # <<>> /\ Trimmed(LineAt(c, p))[1] # "#"}

\* the keys of a text, in file order
ExpectedFileKeys(c) ==
    LET S == KeyLineStarts(c)
    IN [i \in 1..Cardinality(S) |->
           Trimmed(LineAt(c, CHOOSE p \in S : Cardinality({q \in S : q <= p}) = i))]

\* the pool of a service: the keys of its file, else the environment key
ExpectedPool(s) ==
    LET fk == IF keyFile[s].exists THEN ExpectedFileKeys(keyFile[s].content) ELSE <<>>
    IN IF fk # <<>> THEN fk
       ELSE IF envVar[s].set /\ envVar[s].value # <<>> THEN <<envVar[s].value>>
       ELSE <<>>

\* C25: the pool loaded for a service is the key file's lines, trimmed, without
\* the blank lines and the lines starting with '#', in file order; when the
\* file is absent or yields no key and the environment variable holds a value,
\* the pool is that value alone; when the file yields a key the environment
\* variable is ignored; and no blank or comment line makes the load fail.
C25_PoolIsFilteredFileElseEnv ==
    \A s \in ServiceName :
        /\ rotResult.kind \in {"none", "value"}
        /\ keysCache[s].has =>
              /\ keysCache[s].keys = ExpectedPool(s)
              /\ rotResult.svc = s => rotResult.idx = Len(ExpectedPool(s))

C25_Witness ==
    /\ keyFile["deepgram"] = FileOf(<<"a", NL, "#", NL, "a">>)
    /\ EnvTruthy("deepgram")
    /\ keysCache["deepgram"].has
    /\ keysCache["deepgram"].keys = << <<"a">>, <<"a">> >>

\* C26: a process() call whose poll returned completed with conclusion success
\* and whose sendVideo call failed ends with the succeeded outcome, and no
\* sendError call is made.
C26_DeliveryFailureKeepsSuccess ==
    (/\ pc = "done"
     /\ pollExit = "completed"
     /\ result.conclusion = "success"
     /\ caught \in {"TypeError", "TelegramError"}) =>
        /\ outcome = Outcome("returned", "succeeded")
        /\ sendErrorCalls = 0

\* C27: process() dispatches, then polls, then delivers: no status fetch and no
\* sendVideo call is made before triggerWorkflow has returned; a status fetch
\* is made only after the one dispatch request succeeded; a failed dispatch is
\* followed by no status fetch and no sendVideo call; and sendVideo is called
\* only after pollWorkflowStatus has returned a completed status.
C27_DispatchThenPollThenDeliver ==
    /\ pc \in {"start", "trigger", "dispatching"} =>
          (fetches = 0 /\ sendVideoCalls = 0 /\ pollExit = "none")
    /\ fetches > 0 => (dispatches = 1 /\ caught # "DispatchError")
    /\ caught = "DispatchError" => (fetches = 0 /\ sendVideoCalls = 0)
    /\ pc \in {"poll_start", "poll_loop", "fetch", "fetching", "sleep"} =>
          (sendVideoCalls = 0 /\ pollExit = "none")
    /\ sendVideoCalls > 0 =>
          (pollExit = "completed" /\ fetches > 0 /\ pc \in {"catch", "notifying", "done"})

C27_Witness ==
    /\ pc = "done"
    /\ dispatches = 1
    /\ fetches >= 2
    /\ pollExit = "completed"
    /\ sendVideoCalls = 1

\* C28: a poll with a positive interval and a finite timeout, on a running
\* event loop, eventually ends: with a completed status or the timeout result
\* when every status fetch returns, by the fetch's error otherwise.
C28_PollTerminates ==
    <>(pollExit \in {"completed", "timeout"} \/ fetched.kind = "error")

C28_Witness ==
    /\ pollExit = "timeout"
    /\ interval > 0
    /\ sleeps >= 3
    /\ everFound
    /\ fetched.kind = "null"

\* a getNextKey, resetRotation or clearCache(serviceName) call for service s
WritingStep(s) ==
    \/ CallOf("getNextKey", s) /\ GetNextKey(s)
    \/ CallOf("resetRotation", s) /\ ResetRotation(s)
    \/ CallOf("clearCache", s) /\ ClearCache(s)

\* C29: a getNextKey, resetRotation or clearCache(serviceName) call for one
\* service leaves the cursor and the cached pool of every other service as they
\* were, and with them what the next getNextKey call for that other service
\* would answer.
C29_ServicesRotateIndependently ==
    [][\A s \in ServiceName :
          WritingStep(s) =>
              \A t \in ServiceName \ {s} :
                  /\ currentIndex'[t] = currentIndex[t]
                  /\ keysCache'[t] = keysCache[t]
                  /\ NextKeyView(keysCache', currentIndex', t) =
                        NextKeyView(keysCache, currentIndex, t)]_vars

C29_Witness ==
    /\ rotResult = Result("clearCache", "deepgram", "void", <<>>, 0)
    /\ ~keysCache["deepgram"].has
    /\ currentIndex["deepgram"].has
    /\ keysCache["gemini"].has
    /\ Len(keysCache["gemini"].keys) = 3
    /\ currentIndex["gemini"].has
    /\ currentIndex["gemini"].idx = 1

\* C30: once a status fetch of a poll has returned a run, every later status
\* fetch of that poll made while the run is in the listing returns the run with
\* the same id, and so does the poll itself.
C30_CorrelationStable ==
    (/\ foundId # 0
     /\ fetched.kind \in {"run", "null"}
     /\ \E i \in 1..Len(remoteRuns) : remoteRuns[i].id = foundId) =>
        /\ fetched.kind = "run"
        /\ fetched.id = foundId
        /\ result.kind = "run" => result.id = foundId

Spec == SpecRot
====
